---- MODULE Spec2Model ----
(***************************************************************************)
(* Minesweeper rules engine: the grid parser (src/src/game/parse_grid.rs)  *)
(* and the Game state engine (src/src/game.rs).                            *)
(*                                                                         *)
(* Points are 0-based (row, col) as in the source; TLA+ sequences are      *)
(* 1-based, so tile (row, col) of a grid g is g[row + 1][col + 1].         *)
(* A line of text is a sequence of one-character strings.                  *)
(***************************************************************************)
EXTENDS Integers, Sequences, FiniteSets, TLC

VARIABLES
    input,          \* the lines of the input stream handed to from_input
    pc,             \* "start" | "playing" | "failed" | "panicked"
    grid,           \* Game.grid: rows of tiles
    num_bombs,      \* Game.num_bombs
    num_revealed,   \* Game.num_revealed
    game_over,      \* Game.game_over: "None" | "Win" | "Loss"
    error,          \* the io::Error of a failed parse, <<>> when there is none
    last            \* the operation that produced this state

vars == <<input, pc, grid, num_bombs, num_revealed, game_over, error, last>>

---------------------------------------------------------------------------
(* Bounds of the model. *)

\* Spec: an input has at most MaxHeight lines, ...
MaxHeight == 3
\* ... each of at most MaxWidth characters, ...
MaxWidth == 3
\* ... and at most MaxChars characters in all.
MaxChars == 4
\* GridSpec: a well-formed input has at most MaxHeight lines of at most
\* MaxWidth characters, and at most MaxTiles characters in all.
MaxTiles == 9

---------------------------------------------------------------------------
(* Input text. *)

\* 'x' is a bomb and '.' an empty tile (parse_grid.rs:25,29); '#' stands for
\* every other character (it is the bomb marker of the older grid.rs).
Chars == {"x", ".", "#"}

Min(a, b) == IF a < b THEN a ELSE b

\* Lines of at most n characters.
LinesUpTo(n) == UNION {[1..k -> Chars] : k \in 0..n}

\* Inputs of at most h lines, each of at most MaxWidth characters, with at
\* most c characters in all.
RECURSIVE InputsUpTo(_, _)
InputsUpTo(h, c) ==
    IF h = 0 THEN {<<>>}
    ELSE {<<>>} \cup
         UNION {{<<l>> \o rest : rest \in InputsUpTo(h - 1, c - Len(l))}
                    : l \in LinesUpTo(Min(MaxWidth, c))}

Inputs == InputsUpTo(MaxHeight, MaxChars)

\* Well-formed inputs: h lines of w characters, each 'x' or '.'.
GridInputs ==
    UNION {[1..h -> [1..w -> {"x", "."}]]
               : <<h, w>> \in {d \in (1..MaxHeight) \X (1..MaxWidth) : d[1] * d[2] <= MaxTiles}}

---------------------------------------------------------------------------
(* Tiles (game.rs:15-41). *)

Visibility == {"Hidden", "Flagged", "Revealed"}

Tile_new(has_bomb) ==
    [has_bomb |-> has_bomb, adj_bombs |-> 0, visibility |-> "Hidden"]

---------------------------------------------------------------------------
(* parse_grid (game/parse_grid.rs:13-96). *)

\* The three io::Error values of kind InvalidData that parse_grid builds.
UnexpectedChar(c) == <<"InvalidData", "Unexpected char in grid input", c>>
\* The jagged-grid error with the row reported 1-based.
JaggedGrid_OneBased(first, i, curr) == <<"InvalidData", "Jagged grid", first, i + 1, curr>>

\* "Jagged grid; grid[0] len {first}, grid[{i}] len {curr}" (lines 42-45).
JaggedGrid(first, i, curr) == <<"InvalidData", "Jagged grid", first, i, curr>>
EmptyGrid == <<"InvalidData", "Empty grid.">>

ParseOk(g, n) == [ok |-> TRUE, grid |-> g, num_bombs |-> n, err |-> <<>>]
ParseErr(e) == [ok |-> FALSE, grid |-> <<>>, num_bombs |-> 0, err |-> e]

\* The inner loop without line 26: bombs are not counted.
RECURSIVE PopulateRow_Uncounted(_, _, _, _)
PopulateRow_Uncounted(line, k, row, bombs) ==
    IF k > Len(line) THEN [ok |-> TRUE, row |-> row, num_bombs |-> bombs, err |-> <<>>]
    ELSE IF line[k] = "x"
         THEN PopulateRow_Uncounted(line, k + 1, Append(row, Tile_new(TRUE)), bombs)
    ELSE IF line[k] = "."
         THEN PopulateRow_Uncounted(line, k + 1, Append(row, Tile_new(FALSE)), bombs)
    ELSE [ok |-> FALSE, row |-> <<>>, num_bombs |-> 0, err |-> UnexpectedChar(line[k])]

\* The inner loop (lines 23-35): characters k.. of the line are appended to
\* row, counting the bombs; an unexpected character returns the error.
RECURSIVE PopulateRow(_, _, _, _)
PopulateRow(line, k, row, bombs) ==
    IF k > Len(line) THEN [ok |-> TRUE, row |-> row, num_bombs |-> bombs, err |-> <<>>]
    ELSE IF line[k] = "x"
         THEN PopulateRow(line, k + 1, Append(row, Tile_new(TRUE)), bombs + 1)
    ELSE IF line[k] = "."
         THEN PopulateRow(line, k + 1, Append(row, Tile_new(FALSE)), bombs)
    ELSE [ok |-> FALSE, row |-> <<>>, num_bombs |-> 0, err |-> UnexpectedChar(line[k])]

\* The loop's offsets, in its order: for di in [-1, 0, 1], for dj in [-1, 0, 1].
Deltas == <<-1, 0, 1>>

\* The body of the double loop from its k-th iteration on (lines 84-92).
RECURSIVE adj_bombs_loop(_, _, _, _)
adj_bombs_loop(g, i, j, k) ==
    IF k > Len(Deltas) * Len(Deltas) THEN 0
    ELSE LET di == Deltas[((k - 1) \div Len(Deltas)) + 1]
             dj == Deltas[((k - 1) % Len(Deltas)) + 1]
             n == Len(g)
             m == Len(g[1])
             x == i + di
             y == j + dj
         IN  (IF x \in 0..(n - 1) /\ y \in 0..(m - 1) /\ g[x + 1][y + 1].has_bomb
              THEN 1 ELSE 0)
             + adj_bombs_loop(g, i, j, k + 1)

\* The double loop with rows tested against 1..n-1: row 0 is never read.
RECURSIVE adj_bombs_loop_FromRowOne(_, _, _, _)
adj_bombs_loop_FromRowOne(g, i, j, k) ==
    IF k > Len(Deltas) * Len(Deltas) THEN 0
    ELSE LET di == Deltas[((k - 1) \div Len(Deltas)) + 1]
             dj == Deltas[((k - 1) % Len(Deltas)) + 1]
             n == Len(g)
             m == Len(g[1])
             x == i + di
             y == j + dj
         IN  (IF x \in 1..(n - 1) /\ y \in 0..(m - 1) /\ g[x + 1][y + 1].has_bomb
              THEN 1 ELSE 0)
             + adj_bombs_loop_FromRowOne(g, i, j, k + 1)

adj_bombs_FromRowOne(g, i, j) == adj_bombs_loop_FromRowOne(g, i, j, 1)

\* The double loop skipping (di, dj) = (0, 0): the tile itself is not counted.
RECURSIVE adj_bombs_loop_NoSelf(_, _, _, _)
adj_bombs_loop_NoSelf(g, i, j, k) ==
    IF k > Len(Deltas) * Len(Deltas) THEN 0
    ELSE LET di == Deltas[((k - 1) \div Len(Deltas)) + 1]
             dj == Deltas[((k - 1) % Len(Deltas)) + 1]
             n == Len(g)
             m == Len(g[1])
             x == i + di
             y == j + dj
         IN  (IF <<di, dj>> # <<0, 0>>
                 /\ x \in 0..(n - 1) /\ y \in 0..(m - 1) /\ g[x + 1][y + 1].has_bomb
              THEN 1 ELSE 0)
             + adj_bombs_loop_NoSelf(g, i, j, k + 1)

adj_bombs_NoSelf(g, i, j) == adj_bombs_loop_NoSelf(g, i, j, 1)

\* adj_bombs (lines 73-96): the tile itself is counted when it is a bomb.
adj_bombs(g, i, j) == adj_bombs_loop(g, i, j, 1)

\* The two assertions of adj_bombs (lines 79 and 94), bombs being its count.
adj_bombs_asserts(g, i, j, bombs) ==
    /\ i \in 0..(Len(g) - 1) /\ j \in 0..(Len(g[1]) - 1)
    /\ bombs <= 9

\* compute_adj_bombs (lines 62-68). adj_bombs reads has_bomb only, which the
\* pass does not write, so every count is that of the grid as parsed.
compute_adj_bombs(g) ==
    [r \in 1..Len(g) |->
        [c \in 1..Len(g[r]) |-> [g[r][c] EXCEPT !.adj_bombs = adj_bombs(g, r - 1, c - 1)]]]

\* The outer loop (lines 19-49) from line k on, then lines 51-58.
RECURSIVE parse_lines(_, _, _, _)
parse_lines(lines, k, g, bombs) ==
    IF k > Len(lines)
    THEN IF Len(g) = 0 \/ Len(g[1]) = 0
         THEN ParseErr(EmptyGrid)
         ELSE ParseOk(compute_adj_bombs(g), bombs)
    ELSE LET r == PopulateRow(lines[k], 1, <<>>, bombs)
         IN  IF ~r.ok THEN ParseErr(r.err)
             ELSE IF Len(g) > 0 /\ Len(g[1]) # Len(r.row)
                  THEN ParseErr(JaggedGrid(Len(g[1]), Len(g), Len(r.row)))
             ELSE parse_lines(lines, k + 1, Append(g, r.row), r.num_bombs)

\* The parser without the test of lines 51-54: an empty grid is returned.
RECURSIVE parse_lines_NoEmptyCheck(_, _, _, _)
parse_lines_NoEmptyCheck(lines, k, g, bombs) ==
    IF k > Len(lines)
    THEN ParseOk(compute_adj_bombs(g), bombs)
    ELSE LET r == PopulateRow(lines[k], 1, <<>>, bombs)
         IN  IF ~r.ok THEN ParseErr(r.err)
             ELSE IF Len(g) > 0 /\ Len(g[1]) # Len(r.row)
                  THEN ParseErr(JaggedGrid(Len(g[1]), Len(g), Len(r.row)))
             ELSE parse_lines_NoEmptyCheck(lines, k + 1, Append(g, r.row), r.num_bombs)

parse_grid_NoEmptyCheck(lines) == parse_lines_NoEmptyCheck(lines, 1, <<>>, 0)

parse_grid(lines) == parse_lines(lines, 1, <<>>, 0)

\* Whether an assertion of adj_bombs failed during the compute_adj_bombs
\* that produced res: each tile holds the count its call returned.
parse_grid_panics(res) ==
    res.ok /\ \E r \in 1..Len(res.grid) : \E c \in 1..Len(res.grid[r]) :
                 ~adj_bombs_asserts(res.grid, r - 1, c - 1, res.grid[r][c].adj_bombs)

---------------------------------------------------------------------------
(* Game (game.rs:72-184). *)

Game(g, bombs, revealed, outcome) ==
    [grid |-> g, num_bombs |-> bombs, num_revealed |-> revealed, game_over |-> outcome]

\* The Game held by the variables.
Self == Game(grid, num_bombs, num_revealed, game_over)

\* dimensions (lines 111-113).
dimensions(self) == <<Len(self.grid), Len(self.grid[1])>>

\* num_tiles (lines 116-119).
num_tiles(self) == dimensions(self)[1] * dimensions(self)[2]

\* Points a caller may pass: every in-bounds point of the largest grid and
\* the points one row or one column past it.
Points == [row : 0..MaxHeight, col : 0..MaxWidth]

\* Indexing self.grid[row][col] (line 136) panics out of bounds.
InBounds(self, point) ==
    /\ point.row < Len(self.grid)
    /\ point.col < Len(self.grid[point.row + 1])

\* from_input (lines 89-97).
FromInput ==
    /\ pc = "start"
    /\ LET res == parse_grid(input)
       IN  IF parse_grid_panics(res)
           THEN /\ pc' = "panicked"
                /\ UNCHANGED <<grid, num_bombs, num_revealed, game_over, error>>
           ELSE IF res.ok
           THEN /\ pc' = "playing"
                /\ grid' = res.grid
                /\ num_bombs' = res.num_bombs
                /\ num_revealed' = 0
                /\ game_over' = "None"
                /\ UNCHANGED error
           ELSE /\ pc' = "failed"
                /\ error' = res.err
                /\ UNCHANGED <<grid, num_bombs, num_revealed, game_over>>
    /\ last' = <<"from_input">>
    /\ UNCHANGED input

\* The tile at a point that is in bounds.
TileAt(g, point) == g[point.row + 1][point.col + 1]

\* reveal with the two outcome tests in the other order.
reveal_WinFirst(self, point) ==
    LET tile == TileAt(self.grid, point)
        fresh == tile.visibility # "Revealed"
        s1 == IF fresh
              THEN [self EXCEPT
                       !.grid[point.row + 1][point.col + 1].visibility = "Revealed",
                       !.num_revealed = @ + 1]
              ELSE self
    IN  IF s1.num_revealed = num_tiles(s1) - s1.num_bombs
        THEN [s1 EXCEPT !.game_over = "Win"]
        ELSE IF tile.has_bomb
        THEN [s1 EXCEPT !.game_over = "Loss"]
        ELSE s1

\* reveal with the win test against num_tiles, the bombs not subtracted.
reveal_AllTiles(self, point) ==
    LET tile == TileAt(self.grid, point)
        fresh == tile.visibility # "Revealed"
        s1 == IF fresh
              THEN [self EXCEPT
                       !.grid[point.row + 1][point.col + 1].visibility = "Revealed",
                       !.num_revealed = @ + 1]
              ELSE self
    IN  IF tile.has_bomb
        THEN [s1 EXCEPT !.game_over = "Loss"]
        ELSE IF s1.num_revealed = num_tiles(s1)
        THEN [s1 EXCEPT !.game_over = "Win"]
        ELSE s1

\* reveal without the test of line 138: a Revealed tile is counted again.
reveal_CountsAgain(self, point) ==
    LET tile == TileAt(self.grid, point)
        s1 == [self EXCEPT
                  !.grid[point.row + 1][point.col + 1].visibility = "Revealed",
                  !.num_revealed = @ + 1]
    IN  IF tile.has_bomb
        THEN [s1 EXCEPT !.game_over = "Loss"]
        ELSE IF s1.num_revealed = num_tiles(s1) - s1.num_bombs
        THEN [s1 EXCEPT !.game_over = "Win"]
        ELSE s1

\* reveal that also reveals the rest of the row of the point.
reveal_WholeRow(self, point) ==
    LET tile == self.grid[point.row + 1][point.col + 1]
        s1 == [self EXCEPT
                  !.grid[point.row + 1] =
                      [c \in 1..Len(@) |-> [@[c] EXCEPT !.visibility = "Revealed"]],
                  !.num_revealed = IF tile.visibility # "Revealed" THEN @ + 1 ELSE @]
    IN  IF tile.has_bomb
        THEN [s1 EXCEPT !.game_over = "Loss"]
        ELSE IF s1.num_revealed = num_tiles(s1) - s1.num_bombs
        THEN [s1 EXCEPT !.game_over = "Win"]
        ELSE s1

\* reveal (lines 134-148), for a point that is in bounds. The subtraction is
\* on u32 values; num_bombs never exceeds num_tiles, so it does not wrap.
reveal(self, point) ==
    LET tile == TileAt(self.grid, point)
        fresh == tile.visibility # "Revealed"
        s1 == IF fresh
              THEN [self EXCEPT
                       !.grid[point.row + 1][point.col + 1].visibility = "Revealed",
                       !.num_revealed = @ + 1]
              ELSE self
    IN  IF tile.has_bomb
        THEN [s1 EXCEPT !.game_over = "Loss"]
        ELSE IF s1.num_revealed = num_tiles(s1) - s1.num_bombs
        THEN [s1 EXCEPT !.game_over = "Win"]
        ELSE s1

\* reveal_all that also sets num_revealed to the number of tiles.
reveal_all_Counting(self) ==
    [self EXCEPT
        !.grid =
            [r \in 1..Len(self.grid) |->
                [c \in 1..Len(self.grid[r]) |->
                    [self.grid[r][c] EXCEPT !.visibility = "Revealed"]]],
        !.num_revealed = num_tiles(self)]

\* reveal_all that leaves the bombs hidden.
reveal_all_SkipBombs(self) ==
    [self EXCEPT !.grid =
        [r \in 1..Len(self.grid) |->
            [c \in 1..Len(self.grid[r]) |->
                IF self.grid[r][c].has_bomb
                THEN self.grid[r][c]
                ELSE [self.grid[r][c] EXCEPT !.visibility = "Revealed"]]]]

\* reveal_all (lines 177-183).
reveal_all(self) ==
    [self EXCEPT !.grid =
        [r \in 1..Len(self.grid) |->
            [c \in 1..Len(self.grid[r]) |->
                [self.grid[r][c] EXCEPT !.visibility = "Revealed"]]]]

\* The variables take the fields of the Game s.
Store(s) ==
    /\ grid' = s.grid
    /\ num_bombs' = s.num_bombs
    /\ num_revealed' = s.num_revealed
    /\ game_over' = s.game_over

\* A call game.reveal(point). Out of bounds, the index expression of line 136
\* panics before anything is written.
Reveal(point) ==
    /\ pc = "playing"
    /\ IF InBounds(Self, point)
       THEN /\ Store(reveal(Self, point))
            /\ last' = <<"reveal", point, TileAt(grid, point).visibility>>
            /\ UNCHANGED pc
       ELSE /\ pc' = "panicked"
            /\ last' = <<"reveal", point, "OutOfBounds">>
            /\ UNCHANGED <<grid, num_bombs, num_revealed, game_over>>
    /\ UNCHANGED <<input, error>>

RevealAny == \E point \in Points : Reveal(point)

\* A call game.reveal_all().
RevealAll ==
    /\ pc = "playing"
    /\ Store(reveal_all(Self))
    /\ last' = <<"reveal_all">>
    /\ UNCHANGED <<input, pc, error>>

Digits == <<"0", "1", "2", "3", "4", "5", "6", "7", "8", "9">>

\* u32::to_string: the decimal digits, most significant first.
RECURSIVE u32_to_string(_)
u32_to_string(n) ==
    IF n < 10
    THEN <<Digits[n + 1]>>
    ELSE Append(u32_to_string(n \div 10), Digits[(n % 10) + 1])

\* assert!(self.adj_bombs < 10) of Tile::to_char fails (line 57).
to_char_panics(tile) ==
    /\ tile.visibility = "Revealed"
    /\ ~tile.has_bomb
    /\ tile.adj_bombs # 0
    /\ ~(tile.adj_bombs < 10)

\* to_char that shows the count of every revealed tile, bomb or not.
to_char_NoBombTest(tile) ==
    CASE tile.visibility = "Hidden" -> "."
      [] tile.visibility = "Flagged" -> "*"
      [] tile.visibility = "Revealed" ->
            IF tile.adj_bombs = 0
            THEN " "
            ELSE Head(u32_to_string(tile.adj_bombs))

\* Tile::to_char (lines 46-62).
to_char(tile) ==
    CASE tile.visibility = "Hidden" -> "."
      [] tile.visibility = "Flagged" -> "*"
      [] tile.visibility = "Revealed" ->
            IF tile.has_bomb
            THEN "#"
            ELSE IF tile.adj_bombs = 0
            THEN " "
            ELSE Head(u32_to_string(tile.adj_bombs))

\* for tile in row { s.push(tile.to_char()) } from tile k on (lines 167-169).
RECURSIVE push_row(_, _, _)
push_row(row, k, s) ==
    IF k > Len(row)
    THEN s
    ELSE push_row(row, k + 1, Append(s, to_char(row[k])))

\* The row loop that pushes the newline before every row, the first too.
RECURSIVE to_string_loop_NewlineFirst(_, _, _)
to_string_loop_NewlineFirst(g, i, s) ==
    IF i >= Len(g)
    THEN s
    ELSE to_string_loop_NewlineFirst(g, i + 1, push_row(g[i + 1], 1, Append(s, "\n")))

to_string_NewlineFirst(self) == to_string_loop_NewlineFirst(self.grid, 0, <<>>)

\* The row loop of Game::to_string from the 0-based row i on (lines 163-170).
RECURSIVE to_string_loop(_, _, _)
to_string_loop(g, i, s) ==
    IF i >= Len(g)
    THEN s
    ELSE to_string_loop(g, i + 1,
            push_row(g[i + 1], 1, IF i # 0 THEN Append(s, "\n") ELSE s))

\* Game::to_string (lines 161-172).
to_string(self) == to_string_loop(self.grid, 0, <<>>)

to_string_panics(self) ==
    \E r \in 1..Len(self.grid) : \E c \in 1..Len(self.grid[r]) :
        to_char_panics(self.grid[r][c])

\* A call game.to_string(); it takes &self.
ToStringCall ==
    /\ pc = "playing"
    /\ IF to_string_panics(Self)
       THEN pc' = "panicked" /\ last' = <<"to_string", "panic">>
       ELSE pc' = pc /\ last' = <<"to_string", to_string(Self)>>
    /\ UNCHANGED <<input, grid, num_bombs, num_revealed, game_over, error>>

\* Option<Tile>: None is the empty sequence, Some(tile) holds the tile.
NoTile == <<>>

Some(tile) == <<tile>>

\* get that takes the last row for out of bounds.
get_ShortOfLastRow(self, point) ==
    IF point.row + 1 < Len(self.grid) /\ point.col < Len(self.grid[point.row + 1])
    THEN Some(self.grid[point.row + 1][point.col + 1])
    ELSE NoTile

\* get (lines 122-129); && does not evaluate self.grid[row] when the row is
\* out of range.
get(self, point) ==
    IF point.row < Len(self.grid) /\ point.col < Len(self.grid[point.row + 1])
    THEN Some(self.grid[point.row + 1][point.col + 1])
    ELSE NoTile

\* A call game.get(point); it takes &self.
Get(point) ==
    /\ pc = "playing"
    /\ last' = <<"get", point, get(Self, point)>>
    /\ UNCHANGED <<input, pc, grid, num_bombs, num_revealed, game_over, error>>

GetAny == \E point \in Points : Get(point)

---------------------------------------------------------------------------
(* grid.rs: the counting and the display of the Grid type. *)

\* The body of the double loop of grid.rs's adj_bombs from its k-th
\* iteration on (lines 132-144); (di, dj) = (0, 0) is passed over.
RECURSIVE Grid_adj_bombs_loop(_, _, _, _)
Grid_adj_bombs_loop(g, i, j, k) ==
    IF k > Len(Deltas) * Len(Deltas) THEN 0
    ELSE LET di == Deltas[((k - 1) \div Len(Deltas)) + 1]
             dj == Deltas[((k - 1) % Len(Deltas)) + 1]
             n == Len(g)
             m == Len(g[1])
             x == i + di
             y == j + dj
         IN  (IF <<di, dj>> # <<0, 0>>
                 /\ x \in 0..(n - 1) /\ y \in 0..(m - 1) /\ g[x + 1][y + 1].has_bomb
              THEN 1 ELSE 0)
             + Grid_adj_bombs_loop(g, i, j, k + 1)

\* grid.rs's adj_bombs (lines 122-146): the tile itself is not counted.
Grid_adj_bombs(g, i, j) == Grid_adj_bombs_loop(g, i, j, 1)

\* grid.rs's compute_adj_bombs (lines 111-117).
Grid_compute_adj_bombs(g) ==
    [r \in 1..Len(g) |->
        [c \in 1..Len(g[r]) |->
            [g[r][c] EXCEPT !.adj_bombs = Grid_adj_bombs(g, r - 1, c - 1)]]]

\* grid.rs's Tile::to_char (lines 32-48).
Grid_to_char(tile) ==
    CASE tile.visibility = "Hidden" -> "."
      [] tile.visibility = "Flagged" -> "*"
      [] tile.visibility = "Revealed" ->
            IF tile.has_bomb
            THEN "#"
            ELSE IF tile.adj_bombs = 0
            THEN " "
            ELSE Head(u32_to_string(tile.adj_bombs))

\* for tile in row { s.push(tile.to_char()) } from tile k on (lines 61-63).
RECURSIVE Grid_push_row(_, _, _)
Grid_push_row(row, k, s) ==
    IF k > Len(row)
    THEN s
    ELSE Grid_push_row(row, k + 1, Append(s, Grid_to_char(row[k])))

\* Grid::to_string from row k on (lines 58-67): a newline after every row.
RECURSIVE Grid_to_string_loop(_, _, _)
Grid_to_string_loop(g, k, s) ==
    IF k > Len(g)
    THEN s
    ELSE Grid_to_string_loop(g, k + 1, Append(Grid_push_row(g[k], 1, s), "\n"))

Grid_to_string(g) == Grid_to_string_loop(g, 1, <<>>)

---------------------------------------------------------------------------
(* main.rs: the driver. *)

\* enum Input (lines 112-116), as read_input returns it for a line typed.
UserInputs == {<<"Exit">>, <<"Malformed">>} \cup {<<"Point", point>> : point \in Points}

\* A point is handed on unless get finds its tile Flagged.
breaks_with_NotFlagged(self, point) ==
    LET t == get(self, point)
    IN  t # NoTile /\ t[1].visibility # "Flagged"

\* The match of lines 29-55 reaches `break p`: get returns a tile and the
\* tile is Hidden.
breaks_with(self, point) ==
    LET t == get(self, point)
    IN  t # NoTile /\ t[1].visibility = "Hidden"

\* main returns on a win only.
main_returns_OnWin(outcome) == outcome = "Win"

\* The match of lines 69-79 returns: Some(Win), or any other Some, which the
\* binding pattern Some(Lose) takes.
main_returns(outcome) == outcome = "Win" \/ outcome # "None"

\* One line typed at the prompt of main's loop (lines 15-80): the grid has
\* been displayed; Exit returns, a malformed line or a point that is not
\* handed on prompts again, a point handed on is revealed and the outcome
\* looked at.
MainLoop(inp) ==
    /\ pc = "playing"
    /\ IF to_string_panics(Self)
       THEN /\ pc' = "panicked"
            /\ last' = <<"to_string", "panic">>
            /\ UNCHANGED <<grid, num_bombs, num_revealed, game_over>>
       ELSE IF inp[1] = "Exit"
       THEN /\ pc' = "exited"
            /\ last' = <<"exit">>
            /\ UNCHANGED <<grid, num_bombs, num_revealed, game_over>>
       ELSE IF inp[1] = "Malformed" \/ ~breaks_with(Self, inp[2])
       THEN /\ pc' = pc
            /\ last' = <<"prompt_again", inp>>
            /\ UNCHANGED <<grid, num_bombs, num_revealed, game_over>>
       ELSE IF InBounds(Self, inp[2])
       THEN /\ Store(reveal(Self, inp[2]))
            /\ last' = <<"reveal", inp[2], TileAt(grid, inp[2]).visibility>>
            /\ pc' = IF main_returns(reveal(Self, inp[2]).game_over)
                     THEN "exited"
                     ELSE "playing"
       ELSE /\ pc' = "panicked"
            /\ last' = <<"reveal", inp[2], "OutOfBounds">>
            /\ UNCHANGED <<grid, num_bombs, num_revealed, game_over>>
    /\ UNCHANGED <<input, error>>

MainLoopAny == \E inp \in UserInputs : MainLoop(inp)

---------------------------------------------------------------------------
(* Specifications. *)

InitWith(inputs) ==
    /\ input \in inputs
    /\ pc = "start"
    /\ grid = <<>>
    /\ num_bombs = 0
    /\ num_revealed = 0
    /\ game_over = "None"
    /\ error = <<>>
    /\ last = <<"none">>

\* Any input within the bounds, then any sequence of calls on the Game.
Init == InitWith(Inputs)

Next == FromInput \/ RevealAny \/ RevealAll \/ ToStringCall

Spec == Init /\ [][Next]_vars

\* Any input within the bounds, then reveal, reveal_all and get calls.
GetNext == FromInput \/ RevealAny \/ RevealAll \/ GetAny

GetSpec == Init /\ [][GetNext]_vars

\* Any input within the bounds, then reveal calls only.
RevealNext == FromInput \/ RevealAny

RevealSpec == Init /\ [][RevealNext]_vars

\* main: the input file is parsed, then the lines typed are served.
DriverNext == FromInput \/ MainLoopAny

DriverSpec == Init /\ [][DriverNext]_vars

\* Well-formed inputs of at most MaxTiles tiles, parsed, revealed as a whole
\* and rendered, as the tests of game.rs do.
GridInit == InitWith(GridInputs)

GridNext == FromInput \/ RevealAll \/ ToStringCall

GridSpec == GridInit /\ [][GridNext]_vars

---------------------------------------------------------------------------
(* Vocabulary of the claims. *)

\* The positions (1-based) of the tiles of a grid.
Positions(g) == UNION {{<<r, c>> : c \in 1..Len(g[r])} : r \in 1..Len(g)}

RevealedAt(g) == {q \in Positions(g) : g[q[1]][q[2]].visibility = "Revealed"}

BombsAt(g) == {q \in Positions(g) : g[q[1]][q[2]].has_bomb}

\* A Game has been constructed.
HasGame == pc = "playing" \/ (pc = "panicked" /\ last[1] = "reveal")

\* The state follows a call reveal(point) that returned.
AfterReveal == last[1] = "reveal" /\ last[3] # "OutOfBounds"

\* The step is a call reveal(point), point = last'[2].
RevealStep == pc = "playing" /\ last'[1] = "reveal"

---------------------------------------------------------------------------
(* C1 .. C6: the Game state engine. *)

\* C1 (as claimed): once game_over is Some(Win) or Some(Loss), no later
\* operation changes it.
C1_OutcomeIrreversible == [][game_over # "None" => game_over' = game_over]_vars

\* C2: a reveal of a tile with has_bomb = true leaves game_over = Some(Loss),
\* whatever was revealed before.
C2_BombRevealIsLoss ==
    (AfterReveal /\ TileAt(grid, last[2]).has_bomb) => game_over = "Loss"

\* A hidden bomb was revealed after other tiles had been, and the game is lost.
C2_Witness ==
    /\ AfterReveal /\ last[3] = "Hidden"
    /\ TileAt(grid, last[2]).has_bomb
    /\ num_revealed >= 2
    /\ game_over = "Loss"

\* C3: in a game in progress in which no bomb has been revealed, a reveal of a
\* hidden non-bomb tile sets Win exactly when every non-bomb tile is Revealed
\* after it, which is when num_revealed = num_tiles - num_bombs; otherwise
\* game_over stays None; it is never Loss.
C3_WinBoundary ==
    [][(/\ RevealStep
        /\ game_over = "None"
        /\ RevealedAt(grid) \cap BombsAt(grid) = {}
        /\ last'[3] = "Hidden"
        /\ ~TileAt(grid, last'[2]).has_bomb)
       => LET done == Positions(grid') \ BombsAt(grid') \subseteq RevealedAt(grid')
          IN  /\ game_over' = "Win" <=> done
              /\ done <=> num_revealed' = Cardinality(Positions(grid)) - num_bombs
              /\ game_over' # "Win" => game_over' = "None"]_vars

\* The last of at least two non-bomb tiles was revealed, bombs remain hidden,
\* and the game is won.
C3_Witness ==
    /\ AfterReveal /\ last[3] = "Hidden"
    /\ RevealedAt(grid) \cap BombsAt(grid) = {}
    /\ BombsAt(grid) # {}
    /\ num_revealed >= 2
    /\ game_over = "Win"

\* C4 (as claimed): a reveal of an out-of-bounds point or of a tile that is
\* already Revealed fails fatally and changes no field of the Game.
C4_PreconditionEnforced ==
    [][(RevealStep /\ last'[3] \in {"OutOfBounds", "Revealed"})
       => /\ pc' = "panicked"
          /\ UNCHANGED <<grid, num_bombs, num_revealed, game_over>>]_vars

\* C4 (amended): out of bounds, reveal fails fatally and changes no field of
\* the Game; on a tile that is already Revealed it returns, leaves every
\* visibility and num_revealed as they were, and sets game_over by the same
\* rule as for a hidden tile.
C4_RevealOutsidePrecondition ==
    [][RevealStep =>
         /\ last'[3] = "OutOfBounds" <=> ~InBounds(Self, last'[2])
         /\ last'[3] = "OutOfBounds" =>
              /\ pc' = "panicked"
              /\ UNCHANGED <<grid, num_bombs, num_revealed, game_over>>
         /\ last'[3] = "Revealed" =>
              /\ pc' = "playing"
              /\ UNCHANGED <<grid, num_bombs, num_revealed>>
              /\ game_over' =
                   IF TileAt(grid, last'[2]).has_bomb THEN "Loss"
                   ELSE IF num_revealed = Cardinality(Positions(grid)) - num_bombs
                        THEN "Win"
                        ELSE game_over]_vars

\* reveal was called on a tile that was already Revealed, and returned.
C4_Witness == pc = "playing" /\ last[1] = "reveal" /\ last[3] = "Revealed"

\* C5 (as claimed): after reveal_all every tile is Revealed and num_revealed
\* is the number of tiles.
C5_RevealAllCountsAll ==
    last[1] = "reveal_all" =>
        /\ RevealedAt(grid) = Positions(grid)
        /\ num_revealed = Len(grid) * Len(grid[1])

\* C5 (amended): after reveal_all every tile is Revealed; num_revealed and
\* game_over are as they were before the call.
C5_RevealAll ==
    [][(pc = "playing" /\ last'[1] = "reveal_all")
       => /\ RevealedAt(grid') = Positions(grid')
          /\ num_revealed' = num_revealed
          /\ game_over' = game_over]_vars

\* reveal_all was called in a finished game with tiles still hidden: all are
\* Revealed now, and num_revealed is below the number of tiles.
C5_Witness ==
    /\ last[1] = "reveal_all"
    /\ game_over # "None"
    /\ RevealedAt(grid) = Positions(grid)
    /\ num_revealed < Len(grid) * Len(grid[1])

\* C6 (as claimed): num_revealed is the number of non-bomb tiles that are
\* Revealed.
C6_CountsNonBombTiles ==
    HasGame => num_revealed = Cardinality(RevealedAt(grid) \ BombsAt(grid))

---------------------------------------------------------------------------
(* C7 .. C10: the grid parser. *)

\* The text is a non-empty rectangle of 'x' and '.'.
WellFormed(lines) ==
    /\ Len(lines) >= 1
    /\ Len(lines[1]) >= 1
    /\ \A k \in 1..Len(lines) :
          /\ Len(lines[k]) = Len(lines[1])
          /\ \A j \in 1..Len(lines[k]) : lines[k][j] \in {"x", "."}

\* C7: from_input yields a Game exactly when the input has a line, its first
\* line has a character, every line is as long as the first and every
\* character is 'x' or '.'; otherwise it yields one InvalidData error and no
\* grid.
C7_ParseSucceedsIff ==
    last[1] = "from_input" =>
        /\ pc = "playing" <=> WellFormed(input)
        /\ pc = "playing" => error = <<>> /\ grid # <<>>
        /\ pc # "playing" => pc = "failed" /\ error[1] = "InvalidData" /\ grid = <<>>

\* An input of blank lines only was rejected.
C7_Witness ==
    /\ last[1] = "from_input"
    /\ pc = "failed"
    /\ Len(input) >= 1
    /\ \A k \in 1..Len(input) : Len(input[k]) = 0

\* C8: a parsed grid is a non-empty rectangle with one row per line and one
\* tile per character; a tile has a bomb exactly when its character is 'x';
\* num_bombs is the number of tiles with a bomb, and num_tiles the number of
\* tiles, height x width.
C8_ParsedGrid ==
    HasGame =>
        /\ Len(grid) >= 1 /\ Len(grid[1]) >= 1
        /\ Len(grid) = Len(input)
        /\ \A r \in 1..Len(grid) :
              /\ Len(grid[r]) = Len(grid[1])
              /\ Len(grid[r]) = Len(input[r])
              /\ \A c \in 1..Len(grid[r]) : grid[r][c].has_bomb <=> input[r][c] = "x"
        /\ num_bombs = Cardinality(BombsAt(grid))
        /\ num_tiles(Self) = Cardinality(Positions(grid))
        /\ num_tiles(Self) = Len(input) * Len(input[1])

\* A grid of at least two rows and two columns with at least two bombs was
\* parsed.
C8_Witness ==
    /\ last[1] = "from_input"
    /\ pc = "playing"
    /\ Len(grid) >= 2 /\ Len(grid[1]) >= 2
    /\ num_bombs >= 2
    /\ num_bombs < num_tiles(Self)

Abs(a) == IF a < 0 THEN -a ELSE a

\* The bombs of the grid in the 3x3 block centred on q, q included.
BlockBombs(g, q) ==
    {b \in BombsAt(g) : Abs(b[1] - q[1]) <= 1 /\ Abs(b[2] - q[2]) <= 1}

\* C9: adj_bombs of every tile is the number of bombs in the in-bounds part
\* of the 3x3 block centred on it, the tile itself included.
C9_AdjBombsBlock ==
    HasGame =>
        \A q \in Positions(grid) :
            grid[q[1]][q[2]].adj_bombs = Cardinality(BlockBombs(grid, q))

\* A bomb whose eight neighbours are bombs: its count is 9.
C9_Witness ==
    /\ pc = "playing"
    /\ \E q \in Positions(grid) : grid[q[1]][q[2]].adj_bombs = 9

\* C10 (as claimed): adj_bombs of every tile is in 0..8 and is the number of
\* bombs among its 8 neighbours, the tile itself excluded.
C10_AdjBombsExcludesSelf ==
    HasGame =>
        \A q \in Positions(grid) :
            /\ grid[q[1]][q[2]].adj_bombs \in 0..8
            /\ grid[q[1]][q[2]].adj_bombs = Cardinality(BlockBombs(grid, q) \ {q})

\* C10 (amended): adj_bombs of every tile is in 0..9 and is the number of
\* bombs among its 8 neighbours plus one when the tile itself has a bomb; on a
\* tile without a bomb it is in 0..8 and is the number among the 8 neighbours.
C10_AdjBombsPlusSelf ==
    HasGame =>
        \A q \in Positions(grid) :
            LET tile == grid[q[1]][q[2]]
                around == Cardinality(BlockBombs(grid, q) \ {q})
            IN  /\ tile.adj_bombs \in 0..9
                /\ tile.adj_bombs = around + (IF tile.has_bomb THEN 1 ELSE 0)
                /\ ~tile.has_bomb => tile.adj_bombs \in 0..8 /\ tile.adj_bombs = around

\* A tile without a bomb whose eight neighbours are bombs (count 8), and a
\* bomb beside it whose count includes itself.
C10_Witness ==
    /\ pc = "playing"
    /\ \E q \in Positions(grid) :
          /\ ~grid[q[1]][q[2]].has_bomb
          /\ grid[q[1]][q[2]].adj_bombs = 8
    /\ \E q \in BombsAt(grid) :
          grid[q[1]][q[2]].adj_bombs = Cardinality(BlockBombs(grid, q) \ {q}) + 1

---------------------------------------------------------------------------
(* C11: the errors of the parser. *)

\* The rows (1-based) whose length differs from the first row's.
OddRows(lines) == {k \in 1..Len(lines) : Len(lines[k]) # Len(lines[1])}

FirstOf(S) == CHOOSE k \in S : \A other \in S : k <= other

\* Every character of the rows 1..k is 'x' or '.'.
CleanUpTo(lines, k) ==
    \A r \in 1..k : \A j \in 1..Len(lines[r]) : lines[r][j] \in {"x", "."}

\* The error is the jagged-row error for the first row (1-based k) that is
\* not as long as the first: the first row's length, the 0-based index of
\* row k and the length of row k.
ReportsJagged(lines, k) ==
    /\ pc = "failed"
    /\ error[2] = "Jagged grid"
    /\ error[3] = Len(lines[1])
    /\ error[4] = k - 1
    /\ error[5] = Len(lines[k])

\* An input without lines or with blank lines only is an empty grid.
ReportsEmpty(lines) ==
    (\A k \in 1..Len(lines) : Len(lines[k]) = 0)
        => pc = "failed" /\ error = EmptyGrid

\* C11 (as claimed): whenever a row is not as long as the first, the parse
\* fails with the jagged-row error for the first such row; an input of blank
\* lines only, or of no lines, is reported as an empty grid.
C11_JaggedAlwaysReported ==
    last[1] = "from_input" =>
        /\ OddRows(input) # {} => ReportsJagged(input, FirstOf(OddRows(input)))
        /\ ReportsEmpty(input)

\* C11 (amended): the same, provided every character of the rows up to and
\* including the first row of another length is 'x' or '.'; otherwise the
\* first other character is reported instead.
C11_JaggedReported ==
    last[1] = "from_input" =>
        /\ OddRows(input) # {} =>
              LET k == FirstOf(OddRows(input))
              IN  IF CleanUpTo(input, k)
                  THEN ReportsJagged(input, k)
                  ELSE pc = "failed" /\ error[2] = "Unexpected char in grid input"
        /\ ReportsEmpty(input)

\* A blank line after two rows of one tile each was reported as jagged, at
\* index 2.
C11_Witness ==
    /\ last[1] = "from_input"
    /\ Len(input) = 3
    /\ Len(input[1]) = 1 /\ Len(input[2]) = 1 /\ Len(input[3]) = 0
    /\ error = JaggedGrid(1, 2, 0)

---------------------------------------------------------------------------
(* C12: get. *)

\* C12: get(point) returns the tile at (row, col) exactly when row is less
\* than the height and col less than the width, and nothing for every other
\* point; the call does not panic and changes no field of the game.
C12_GetInBoundsOnly ==
    [][(pc = "playing" /\ last'[1] = "get") =>
          LET point == last'[2]
              height == Len(grid)
              width == Len(grid[1])
          IN  /\ IF point.row < height /\ point.col < width
                 THEN last'[3] = <<grid[point.row + 1][point.col + 1]>>
                 ELSE last'[3] = <<>>
              /\ pc' = "playing"
              /\ UNCHANGED <<grid, num_bombs, num_revealed, game_over>>]_vars

\* get was asked for a row past the last one, at a column of the grid, and
\* returned nothing.
C12_Witness ==
    /\ pc = "playing"
    /\ last[1] = "get"
    /\ last[2].row >= Len(grid)
    /\ last[2].col < Len(grid[1])
    /\ last[3] = <<>>

---------------------------------------------------------------------------
(* C13: rendering. *)

\* The character a tile is to be shown as; a revealed tile without a bomb
\* and with neighbours that have one has a count of 1 to 8.
ShownAs(tile) ==
    IF tile.visibility = "Hidden" THEN "."
    ELSE IF tile.visibility = "Flagged" THEN "*"
    ELSE IF tile.has_bomb THEN "#"
    ELSE IF tile.adj_bombs = 0 THEN " "
    ELSE <<"1", "2", "3", "4", "5", "6", "7", "8">>[tile.adj_bombs]

\* s holds the h * w tile characters of g row by row, a newline after each
\* row but the last, and nothing else.
RowMajor(s, g) ==
    LET h == Len(g)
        w == Len(g[1])
    IN  /\ Len(s) = h * w + (h - 1)
        /\ \A r \in 1..h : \A c \in 1..w :
              s[(r - 1) * (w + 1) + c] = ShownAs(g[r][c])
        /\ \A r \in 1..(h - 1) : s[r * (w + 1)] = "\n"
        /\ Cardinality({k \in 1..Len(s) : s[k] = "\n"}) = h - 1
        /\ s[Len(s)] # "\n"

\* C13: the rendering of a game holds its height * width tile characters in
\* row-major order, height - 1 newlines between the rows and no trailing
\* newline; a tile shows as '.' when Hidden, '*' when Flagged, '#' when a
\* revealed bomb, ' ' when revealed with no bomb around, else as one digit
\* 1 to 8, whatever its visibility; the assertion adj_bombs < 10 holds.
C13_Rendering ==
    last[1] = "to_string" =>
        /\ pc = "playing"
        /\ RowMajor(last[2], grid)
        /\ \A q \in Positions(grid) : \A v \in Visibility :
              LET tile == [grid[q[1]][q[2]] EXCEPT !.visibility = v]
              IN  /\ tile.adj_bombs < 10
                  /\ (v = "Revealed" /\ ~tile.has_bomb /\ tile.adj_bombs # 0)
                        => tile.adj_bombs \in 1..8
                  /\ to_char(tile) = ShownAs(tile)

\* A revealed 3x3 grid with eight bombs around its middle tile was rendered.
C13_Witness ==
    /\ pc = "playing"
    /\ last = <<"to_string",
                <<"#", "#", "#", "\n", "#", "8", "#", "\n", "#", "#", "#">>>>

---------------------------------------------------------------------------
(* C14: parse, reveal_all, render. *)

\* The characters of s that are not newlines.
TileChars(s) == SelectSeq(s, LAMBDA ch : ch # "\n")

Occurs(ch, s) == \E k \in 1..Len(s) : s[k] = ch

\* The step that renders the game reveal_all has just revealed.
RoundTripStep == pc = "playing" /\ last[1] = "reveal_all" /\ last'[1] = "to_string"

\* C14 (as claimed): the rendering of a parsed and wholly revealed game has
\* one character per tile, none of them the bomb marker or the hidden marker.
C14_NoBombMarker ==
    [][RoundTripStep =>
          /\ Len(TileChars(last'[2])) = Cardinality(Positions(grid))
          /\ ~Occurs("#", last'[2])
          /\ ~Occurs(".", last'[2])]_vars

\* C14 (amended): the rendering of a parsed and wholly revealed game has one
\* character per tile, none of them the hidden or the flag marker; the bomb
\* marker stands at the tiles with a bomb and nowhere else.
C14_RoundTrip ==
    [][RoundTripStep =>
          LET out == TileChars(last'[2])
              w == Len(grid[1])
          IN  /\ Len(out) = Cardinality(Positions(grid))
              /\ ~Occurs(".", out)
              /\ ~Occurs("*", out)
              /\ \A q \in Positions(grid) :
                    (out[(q[1] - 1) * w + q[2]] = "#") <=> (q \in BombsAt(grid))]_vars

\* A grid with a bomb and a tile without one went through the round trip.
C14_Witness ==
    /\ pc = "playing"
    /\ last[1] = "to_string"
    /\ RevealedAt(grid) = Positions(grid)
    /\ BombsAt(grid) # {}
    /\ BombsAt(grid) # Positions(grid)
    /\ Occurs("#", last[2])

---------------------------------------------------------------------------
(* C15: the protocol of the driver. *)

\* C15: the driver calls reveal only while the game has no outcome, with a
\* point get finds in the grid and whose tile is Hidden at the call; a point
\* out of the grid or at a tile that is not Hidden is asked for again and
\* leaves the game as it is.
C15_DriverProtocol ==
    [][/\ last'[1] = "reveal" =>
             /\ pc = "playing"
             /\ game_over = "None"
             /\ last'[2].row < Len(grid) /\ last'[2].col < Len(grid[1])
             /\ get(Self, last'[2]) # <<>>
             /\ grid[last'[2].row + 1][last'[2].col + 1].visibility = "Hidden"
       /\ (pc = "playing" /\ last'[1] # "reveal") =>
             UNCHANGED <<grid, num_bombs, num_revealed, game_over>>]_vars

\* The driver revealed a second hidden tile, which ended the game, and
\* returned.
C15_Witness ==
    /\ pc = "exited"
    /\ last[1] = "reveal"
    /\ last[3] = "Hidden"
    /\ Cardinality(RevealedAt(grid)) >= 2
    /\ game_over # "None"

---------------------------------------------------------------------------
(* C16: the frame of reveal. *)

\* The tiles of g and h agree in has_bomb and adj_bombs.
SameBoard(g, h) ==
    /\ Len(g) = Len(h)
    /\ \A r \in 1..Len(g) :
          /\ Len(g[r]) = Len(h[r])
          /\ \A c \in 1..Len(g[r]) :
                /\ g[r][c].has_bomb = h[r][c].has_bomb
                /\ g[r][c].adj_bombs = h[r][c].adj_bombs

\* C16: a reveal at a point of the grid leaves has_bomb and adj_bombs of
\* every tile, the visibility of every other tile, the dimensions and
\* num_bombs as they were; no operation makes a Revealed tile Hidden or
\* Flagged again.
C16_RevealFrame ==
    [][/\ (RevealStep /\ pc' = "playing") =>
             /\ SameBoard(grid, grid')
             /\ num_bombs' = num_bombs
             /\ \A q \in Positions(grid) :
                   q # <<last'[2].row + 1, last'[2].col + 1>> =>
                       grid'[q[1]][q[2]].visibility = grid[q[1]][q[2]].visibility
       /\ pc = "playing" => RevealedAt(grid) \subseteq RevealedAt(grid')]_vars

\* A tile was revealed next to one that is still hidden.
C16_Witness ==
    /\ pc = "playing"
    /\ last[1] = "reveal"
    /\ last[3] = "Hidden"
    /\ Cardinality(RevealedAt(grid)) = 1
    /\ Cardinality(Positions(grid)) >= 2

---------------------------------------------------------------------------
(* C17: a driven game ends. *)

Max(a, b) == IF a >= b THEN a ELSE b

\* max(1, num_tiles - num_bombs), counted on the grid.
RevealBound(g) == Max(1, Cardinality(Positions(g)) - Cardinality(BombsAt(g)))

\* With the revealed tiles of g counting the reveals made: no more than
\* RevealBound(g) reveals were made; a game without outcome has made fewer
\* and has a Hidden tile left; a grid of bombs only has not been won.
Driven(g, outcome) ==
    LET reveals == Cardinality(RevealedAt(g))
    IN  /\ reveals <= RevealBound(g)
        /\ outcome = "None" => reveals < RevealBound(g) /\ RevealedAt(g) # Positions(g)
        /\ BombsAt(g) = Positions(g) => outcome \in {"None", "Loss"}

\* C17: the game starts without outcome, a grid of bombs only included; every
\* reveal of the driver turns one more tile Revealed; the driver goes on only
\* while there is no outcome; and the game has its outcome, Win or Loss,
\* after at most max(1, num_tiles - num_bombs) reveals, which is a Loss on a
\* grid of bombs only.
C17_DrivenGameEnds ==
    [][/\ (pc = "start" /\ pc' = "playing") => game_over' = "None"
       /\ (pc = "playing" /\ last'[1] = "reveal") =>
             Cardinality(RevealedAt(grid')) = Cardinality(RevealedAt(grid)) + 1
       /\ pc' = "playing" => game_over' = "None"
       /\ pc' \in {"playing", "exited"} => Driven(grid', game_over')]_vars

\* A game with a bomb was won with the last of its reveals, two or more.
C17_Witness ==
    /\ pc = "exited"
    /\ game_over = "Win"
    /\ BombsAt(grid) # {}
    /\ Cardinality(RevealedAt(grid)) = RevealBound(grid)
    /\ RevealBound(grid) >= 2

---------------------------------------------------------------------------
(* C18: the two ways of counting render alike. *)

\* C18: on every grid a tile without a bomb has the same count whether the
\* tile itself is counted (game/parse_grid.rs) or not (grid.rs); a tile with
\* a bomb never shows its count; so the tile characters rendered from the two
\* counts are the same, for the visibilities the game has and for each
\* visibility a tile can have.
C18_SameRendering ==
    pc = "playing" =>
        LET excl == Grid_compute_adj_bombs(grid)
        IN  /\ \A q \in Positions(grid) :
                  LET tile == grid[q[1]][q[2]]
                      other == excl[q[1]][q[2]]
                  IN  /\ ~tile.has_bomb =>
                            /\ tile.adj_bombs = other.adj_bombs
                            /\ adj_bombs(grid, q[1] - 1, q[2] - 1)
                                  = Grid_adj_bombs(grid, q[1] - 1, q[2] - 1)
                      /\ \A v \in Visibility :
                            to_char([tile EXCEPT !.visibility = v])
                               = Grid_to_char([other EXCEPT !.visibility = v])
            /\ TileChars(to_string(Self)) = TileChars(Grid_to_string(excl))

\* A revealed grid with a bomb that has no bomb around it: counted with
\* itself its count is 1, counted without it is 0.
C18_Witness ==
    /\ pc = "playing"
    /\ RevealedAt(grid) = Positions(grid)
    /\ Cardinality(Positions(grid)) >= 2
    /\ \E q \in BombsAt(grid) :
          /\ grid[q[1]][q[2]].adj_bombs = 1
          /\ Grid_adj_bombs(grid, q[1] - 1, q[2] - 1) = 0

====
